---- MODULE Spec2Model ----
(***************************************************************************)
(* Sales tracker (src/app.py): a Streamlit script that keeps the sales     *)
(* transactions of one session in st.session_state.sales_data and renders  *)
(* one page per script run.                                                *)
(*                                                                         *)
(* Modelling conventions                                                   *)
(*  - a calendar date (datetime.date) is its day number since 1970-01-01;  *)
(*    a pandas Timestamp is its number of seconds since the same epoch;    *)
(*  - prices are whole rupees, for which the floating-point products and   *)
(*    sums of the code are exact;                                          *)
(*  - a quotient the code computes in floating point is kept as the exact  *)
(*    fraction <<numerator, denominator>>;                                 *)
(*  - an optional argument (None or a value) is the empty set or a         *)
(*    singleton, and Python's truthiness test `if x:` is x # {}.           *)
(***************************************************************************)
EXTENDS Integers, Sequences, FiniteSets, TLC

\* Longest store the model builds.
MaxStore == 2

VARIABLES sales_data, today, pc, page, args, filtered_data, analytics_data, metrics, message

\* History of the session, read by no action: the number of submissions accepted
\* so far and the sum of price * quantity over them, as they were submitted.
VARIABLES accepted_count, accepted_revenue

vars == <<sales_data, today, pc, page, args, filtered_data, analytics_data, metrics, message,
          accepted_count, accepted_revenue>>

----------------------------------------------------------------------------
(* Calendar arithmetic of datetime.date / pandas (proleptic Gregorian).    *)

SecondsPerDay == 86400

\* datetime.date(y, m, d) as a day number (days since 1970-01-01).
DateOf(y, m, d) ==
    LET yy  == IF m <= 2 THEN y - 1 ELSE y
        era == yy \div 400
        yoe == yy - era * 400
        mp  == IF m > 2 THEN m - 3 ELSE m + 9
        doy == (153 * mp + 2) \div 5 + d - 1
        doe == yoe * 365 + yoe \div 4 - yoe \div 100 + doy
    IN  era * 146097 + doe - 719468

\* <<year, month, day>> of a day number.
Civil(n) ==
    LET z   == n + 719468
        era == z \div 146097
        doe == z - era * 146097
        yoe == (doe - doe \div 1460 + doe \div 36524 - doe \div 146096) \div 365
        doy == doe - (365 * yoe + yoe \div 4 - yoe \div 100)
        mp  == (5 * doy + 2) \div 153
        d   == doy - (153 * mp + 2) \div 5 + 1
        m   == IF mp < 10 THEN mp + 3 ELSE mp - 9
        y   == yoe + era * 400 + (IF m <= 2 THEN 1 ELSE 0)
    IN  <<y, m, d>>

\* data[mask], the rows that satisfy a mask in their order, is SelectSeq.

\* pd.to_datetime(date): the Timestamp at midnight of that date.
to_datetime(d) == d * SecondsPerDay

\* Series.dt.date: the calendar date of a Timestamp.
dt_date(ts) == ts \div SecondsPerDay

\* Series.dt.month: the month-of-year (1..12) of a Timestamp.
dt_month(ts) == Civil(dt_date(ts))[2]

\* today - timedelta(days=n)
minus_days(d, n) == d - n

----------------------------------------------------------------------------
(* Inputs of the model.                                                    *)

\* The two evaluation instants: datetime.now().date() before and after midnight
\* of a year change.
Todays == <<DateOf(2024, 12, 31), DateOf(2025, 1, 1)>>

\* Dates the date pickers are set to.
Dates == {DateOf(2024, 1, 15), DateOf(2024, 12, 24), DateOf(2024, 12, 30), DateOf(2025, 1, 2)}

\* What the text inputs hold; "" is an input left blank.
Products == {"", "Saree", "Shirt"}
Sellers == {"", "A", "B"}
\* Price per unit (number_input min_value=0.0) and quantity; 0 is the quantity
\* the form check guards against (the widget itself starts at min_value=1).
Prices == {0, 100}
Quantities == {0, 1, 2}

\* Every text the model uses, in Python's str order (code-point order); this is
\* the order in which groupby sorts its keys.
SortedNames == <<"", "A", "All", "B", "Saree", "Shirt">>

StrRank(s) == CHOOSE i \in 1..Len(SortedNames) : SortedNames[i] = s

----------------------------------------------------------------------------
(* The transaction store.                                                  *)

\* add_transaction with the new row put in front of the frame.
add_transaction_in_front(data, date, product_name, price, quantity, seller) ==
    <<[date |-> date, product_name |-> product_name, price |-> price,
       quantity |-> quantity, seller |-> seller, total_amount |-> price * quantity]>> \o data

\* add_transaction with the frame replaced by the new row.
add_transaction_replacing(data, date, product_name, price, quantity, seller) ==
    <<[date |-> date, product_name |-> product_name, price |-> price,
       quantity |-> quantity, seller |-> seller, total_amount |-> price * quantity]>>

\* add_transaction with the quantity left out of the total.
add_transaction_unit_total(data, date, product_name, price, quantity, seller) ==
    Append(data, [date |-> date, product_name |-> product_name, price |-> price,
                  quantity |-> quantity, seller |-> seller, total_amount |-> price])

\* add_transaction: the new row, with its derived total, goes to the end of the
\* frame (pd.concat([sales_data, new_transaction], ignore_index=True)).
add_transaction(data, date, product_name, price, quantity, seller) ==
    LET total_amount == price * quantity
        new_transaction == [date |-> date, product_name |-> product_name,
                            price |-> price, quantity |-> quantity,
                            seller |-> seller, total_amount |-> total_amount]
    IN  Append(data, new_transaction)

----------------------------------------------------------------------------
(* The filter engine.                                                      *)

\* data['date'] = pd.to_datetime(data['date']) on a column of dates.
dates_to_datetime(data) ==
    [i \in 1..Len(data) |-> [data[i] EXCEPT !.date = to_datetime(data[i].date)]]

\* get_filtered_data with the start bound exclusive.
get_filtered_data_after_start(store, start_date, end_date, seller) ==
    IF store = <<>> THEN store
    ELSE
      LET data0 == dates_to_datetime(store)
          Gt(r) == \A s \in start_date : r.date > to_datetime(s)
          Le(r) == \A e \in end_date : r.date <= to_datetime(e)
          Eq(r) == \A s \in seller : r.seller = s
          data1 == IF start_date # {} THEN SelectSeq(data0, Gt) ELSE data0
          data2 == IF end_date # {} THEN SelectSeq(data1, Le) ELSE data1
          data3 == IF seller # {} /\ seller # {"All"} THEN SelectSeq(data2, Eq) ELSE data2
      IN  data3

\* The three masks of get_filtered_data, applied in turn to a frame whose date
\* column holds Timestamps.
filter_rows(data0, start_date, end_date, seller) ==
      LET Ge(r) == \A s \in start_date : r.date >= to_datetime(s)
          Le(r) == \A e \in end_date : r.date <= to_datetime(e)
          Eq(r) == \A s \in seller : r.seller = s
          data1 == IF start_date # {} THEN SelectSeq(data0, Ge) ELSE data0
          data2 == IF end_date # {} THEN SelectSeq(data1, Le) ELSE data1
          data3 == IF seller # {} /\ seller # {"All"} THEN SelectSeq(data2, Eq) ELSE data2
      IN  data3

get_filtered_data(store, start_date, end_date, seller) ==
    IF store = <<>> THEN store
    ELSE filter_rows(dates_to_datetime(store), start_date, end_date, seller)

\* pd.to_datetime of a Timestamp moved to the previous midnight.
as_datetime_shifted(ts) == ts - SecondsPerDay

\* pd.to_datetime(Timestamp): a value that is a Timestamp already stays as it is.
as_datetime(ts) == ts

\* data['date'] = pd.to_datetime(data['date']) on a column of Timestamps.
datetimes_to_datetime(data) ==
    [i \in 1..Len(data) |-> [data[i] EXCEPT !.date = as_datetime(data[i].date)]]

\* get_filtered_data run over a frame it returned (the frame in the place of
\* sales_data): the date column holds Timestamps already.
get_filtered_data_again(frame, start_date, end_date, seller) ==
    IF frame = <<>> THEN frame
    ELSE filter_rows(datetimes_to_datetime(frame), start_date, end_date, seller)

----------------------------------------------------------------------------
(* Grouping and reduction (pandas groupby / sum / idxmax / max).           *)

\* Series.sum() of one column; 0 on no rows.
RECURSIVE column_sum(_, _)
column_sum(data, column) ==
    IF data = <<>> THEN 0 ELSE Head(data)[column] + column_sum(Tail(data), column)

\* The ascending sequence of a finite set of integers.
RECURSIVE SortedInts(_)
SortedInts(S) ==
    IF S = {} THEN <<>>
    ELSE LET lo == CHOOSE x \in S : \A y \in S : x <= y
         IN  <<lo>> \o SortedInts(S \ {lo})

\* The sequence of a finite set of texts in Python's str order.
RECURSIVE SortedStrs(_)
SortedStrs(S) ==
    IF S = {} THEN <<>>
    ELSE LET lo == CHOOSE x \in S : \A y \in S : StrRank(x) <= StrRank(y)
         IN  <<lo>> \o SortedStrs(S \ {lo})

\* data.groupby(by)[column].sum(): one entry per distinct key, keys sorted.
groupby_sum(data, by, column) ==
    LET keys == SortedStrs({data[i][by] : i \in 1..Len(data)})
        Grp(k) == LET Has(r) == r[by] = k IN SelectSeq(data, Has)
    IN  [j \in 1..Len(keys) |-> [key |-> keys[j], value |-> column_sum(Grp(keys[j]), column)]]

\* Series.max() of a non-empty series.
RECURSIVE series_max(_)
series_max(series) ==
    IF Len(series) = 1 THEN series[1].value
    ELSE LET rest == series_max(Tail(series))
         IN  IF series[1].value >= rest THEN series[1].value ELSE rest

\* idxmax returning the label of the last occurrence of the maximum.
RECURSIVE series_idxmax_last(_)
series_idxmax_last(series) ==
    IF Len(series) = 1 THEN series[1].key
    ELSE IF series[1].value > series_max(Tail(series)) THEN series[1].key
         ELSE series_idxmax_last(Tail(series))

\* Series.idxmax() of a non-empty series: the label of the first occurrence of
\* the maximum.
RECURSIVE series_idxmax(_)
series_idxmax(series) ==
    IF Len(series) = 1 THEN series[1].key
    ELSE IF series[1].value >= series_max(Tail(series)) THEN series[1].key
         ELSE series_idxmax(Tail(series))

\* A floating-point quotient n / d, kept exact.
Frac(n, d) == <<n, d>>

----------------------------------------------------------------------------
(* The period aggregator.                                                  *)

\* period_ordinal with the months told apart by their number in the year only.
period_ordinal_month_of_year(ts, period) ==
    LET d == dt_date(ts)
    IN  CASE period = "daily" -> d
          [] period = "weekly" -> (d + 3) \div 7
          [] period = "monthly" -> Civil(d)[2] - 1

\* Ordinal of the pandas period a Timestamp falls in: the day for 'daily', the
\* Monday-to-Sunday week (freq 'W', i.e. W-SUN) for 'weekly', the calendar
\* month for 'monthly'. Periods group and sort by their ordinal.
period_ordinal(ts, period) ==
    LET d == dt_date(ts)
    IN  CASE period = "daily" -> d
          [] period = "weekly" -> (d + 3) \div 7
          [] period = "monthly" -> (Civil(d)[1] - 1970) * 12 + (Civil(d)[2] - 1)

\* The key column of the result: the date for 'daily'; for the other periods
\* the index after astype(str), "YYYY-MM-DD/YYYY-MM-DD" (Monday/Sunday) and
\* "YYYY-MM", kept as the numbers the text is made of.
period_label(ordinal, period) ==
    CASE period = "daily" -> <<ordinal>>
      [] period = "weekly" -> Civil(ordinal * 7 - 3) \o Civil(ordinal * 7 + 3)
      [] period = "monthly" -> <<1970 + (ordinal \div 12), (ordinal % 12) + 1>>

\* calculate_analytics with running (cumulative) buckets.
calculate_analytics_running(data, period) ==
    IF data = <<>> THEN <<>>
    ELSE
      LET keys == SortedInts({period_ordinal(data[i].date, period) : i \in 1..Len(data)})
          Grp(k) == LET Has(r) == period_ordinal(r.date, period) <= k IN SelectSeq(data, Has)
      IN  [j \in 1..Len(keys) |->
             [key |-> period_label(keys[j], period),
              total_amount |-> column_sum(Grp(keys[j]), "total_amount"),
              quantity |-> column_sum(Grp(keys[j]), "quantity"),
              transaction_count |-> Len(Grp(keys[j]))]]

calculate_analytics(data, period) ==
    IF data = <<>> THEN <<>>
    ELSE
      LET keys == SortedInts({period_ordinal(data[i].date, period) : i \in 1..Len(data)})
          Grp(k) == LET Has(r) == period_ordinal(r.date, period) = k IN SelectSeq(data, Has)
      IN  [j \in 1..Len(keys) |->
             [key |-> period_label(keys[j], period),
              total_amount |-> column_sum(Grp(keys[j]), "total_amount"),
              quantity |-> column_sum(Grp(keys[j]), "quantity"),
              transaction_count |-> Len(Grp(keys[j]))]]

----------------------------------------------------------------------------
(* The business metrics calculator.                                        *)

\* Row mask of recent_data: data['date'].dt.date >= week_ago.
is_recent(r, week_ago) == dt_date(r.date) >= week_ago

\* Row mask of last_week_data.
is_last_week(r, last_week_start, week_ago) ==
    dt_date(r.date) >= last_week_start /\ dt_date(r.date) < week_ago

\* The current-month mask also matching the year.
is_current_month_of_year(r, now) ==
    dt_month(r.date) = Civil(now)[2] /\ Civil(dt_date(r.date))[1] = Civil(now)[1]

\* Row mask of current_month: data['date'].dt.month == datetime.now().month.
is_current_month(r, now) == dt_month(r.date) = Civil(now)[2]

\* The body of calculate_business_metrics past its empty-data guard.
business_metrics_of(store, now) ==
      LET data == dates_to_datetime(store)
          total_revenue == column_sum(data, "total_amount")
          total_transactions == Len(data)
          avg_order_value == Frac(column_sum(data, "total_amount"), Len(data))
          total_quantity == column_sum(data, "quantity")
          top_seller == series_idxmax(groupby_sum(data, "seller", "total_amount"))
          top_seller_revenue == series_max(groupby_sum(data, "seller", "total_amount"))
          top_product == series_idxmax(groupby_sum(data, "product_name", "quantity"))
          top_product_qty == series_max(groupby_sum(data, "product_name", "quantity"))
          week_ago == minus_days(now, 7)
          Recent(r) == is_recent(r, week_ago)
          recent_data == SelectSeq(data, Recent)
          daily_avg == IF recent_data # <<>>
                       THEN Frac(column_sum(recent_data, "total_amount"), 7)
                       ELSE Frac(0, 1)
          last_week_start == minus_days(week_ago, 7)
          LastWeek(r) == is_last_week(r, last_week_start, week_ago)
          last_week_data == SelectSeq(data, LastWeek)
          this_week_revenue == column_sum(recent_data, "total_amount")
          last_week_revenue == column_sum(last_week_data, "total_amount")
          growth_rate == IF last_week_revenue > 0
                         THEN Frac((this_week_revenue - last_week_revenue) * 100, last_week_revenue)
                         ELSE Frac(0, 1)
          ThisMonth(r) == is_current_month(r, now)
          current_month == SelectSeq(data, ThisMonth)
          monthly_revenue == column_sum(current_month, "total_amount")
          monthly_transactions == Len(current_month)
      IN  [total_revenue |-> total_revenue,
           total_transactions |-> total_transactions,
           avg_order_value |-> avg_order_value,
           total_quantity |-> total_quantity,
           top_seller |-> top_seller,
           top_seller_revenue |-> top_seller_revenue,
           top_product |-> top_product,
           top_product_qty |-> top_product_qty,
           daily_avg |-> daily_avg,
           growth_rate |-> growth_rate,
           monthly_revenue |-> monthly_revenue,
           monthly_transactions |-> monthly_transactions]

\* calculate_business_metrics answering an empty frame with zeroed metrics.
calculate_business_metrics_zeroed(store, now) ==
    IF store = <<>>
    THEN [total_revenue |-> 0, total_transactions |-> 0, top_seller |-> "N/A"]
    ELSE business_metrics_of(store, now)

\* calculate_business_metrics: {} on an empty frame, else the metrics.
calculate_business_metrics(store, now) ==
    IF store = <<>> THEN <<>> ELSE business_metrics_of(store, now)

----------------------------------------------------------------------------
(* The script: one run of main() per action.                               *)

Init ==
    /\ sales_data = <<>>
    /\ today = Todays[1]
    /\ pc = "idle"
    /\ page = "none"
    /\ args = <<>>
    /\ filtered_data = <<>>
    /\ analytics_data = <<>>
    /\ metrics = <<>>
    /\ message = "none"
    /\ accepted_count = 0
    /\ accepted_revenue = 0

\* The form check letting a zero price through.
form_is_valid_zero_price(product_name, seller, price, quantity) ==
    product_name # "" /\ seller # "" /\ price >= 0 /\ quantity > 0

\* The check of the submitted form.
form_is_valid(product_name, seller, price, quantity) ==
    product_name # "" /\ seller # "" /\ price > 0 /\ quantity > 0

\* main(), page "Add Transaction": the form is submitted.
AddTransactionPage ==
    /\ pc = "idle"
    /\ \E date \in Dates, product_name \in Products, price \in Prices,
          quantity \in Quantities, seller \in Sellers :
        /\ args' = [product_name |-> product_name, price |-> price,
                    quantity |-> quantity, seller |-> seller]
        /\ IF form_is_valid(product_name, seller, price, quantity)
           THEN /\ Len(sales_data) < MaxStore
                /\ sales_data' = add_transaction(sales_data, date, product_name, price, quantity, seller)
                /\ message' = "success"
                /\ accepted_count' = accepted_count + 1
                /\ accepted_revenue' = accepted_revenue + price * quantity
           ELSE /\ sales_data' = sales_data
                /\ message' = "error"
                /\ UNCHANGED <<accepted_count, accepted_revenue>>
    /\ pc' = "rendered"
    /\ page' = "Add Transaction"
    /\ filtered_data' = <<>>
    /\ analytics_data' = <<>>
    /\ metrics' = <<>>
    /\ UNCHANGED today

\* What the optional date pickers and the seller selectbox are set to.
StartDates == {{}, {DateOf(2024, 12, 30)}}
EndDates == {{}, {DateOf(2024, 12, 30)}}
\* ["All"] + list(sales_data['seller'].unique())
SellerChoices(data) == {{"All"}} \cup {{data[i].seller} : i \in 1..Len(data)}

\* main(), page "View Transactions".
ViewTransactionsPage ==
    /\ pc = "idle"
    /\ pc' = "rendered"
    /\ page' = "View Transactions"
    /\ analytics_data' = <<>>
    /\ metrics' = <<>>
    /\ UNCHANGED <<sales_data, today, accepted_count, accepted_revenue>>
    /\ IF sales_data = <<>>
       THEN /\ message' = "info"
            /\ args' = <<>>
            /\ filtered_data' = <<>>
       ELSE \E start_date \in StartDates, end_date \in EndDates,
               selected_seller \in SellerChoices(sales_data) :
              /\ args' = [start_date |-> start_date, end_date |-> end_date,
                          seller |-> selected_seller]
              /\ filtered_data' = get_filtered_data(sales_data, start_date, end_date, selected_seller)
              /\ message' = IF filtered_data' = <<>> THEN "warning" ELSE "shown"

\* main(), page "Export Data".
ExportDataPage ==
    /\ pc = "idle"
    /\ pc' = "rendered"
    /\ page' = "Export Data"
    /\ analytics_data' = <<>>
    /\ metrics' = <<>>
    /\ UNCHANGED <<sales_data, today, accepted_count, accepted_revenue>>
    /\ IF sales_data = <<>>
       THEN /\ message' = "info"
            /\ args' = <<>>
            /\ filtered_data' = <<>>
       ELSE \E export_start_date \in StartDates, export_end_date \in EndDates,
               export_seller \in SellerChoices(sales_data) :
              /\ args' = [start_date |-> export_start_date, end_date |-> export_end_date,
                          seller |-> export_seller]
              /\ filtered_data' = get_filtered_data(sales_data, export_start_date,
                                                    export_end_date, export_seller)
              /\ message' = IF filtered_data' = <<>> THEN "warning" ELSE "download"

\* main(), page "Dashboard".
DashboardPage ==
    /\ pc = "idle"
    /\ pc' = "rendered"
    /\ page' = "Dashboard"
    /\ args' = <<>>
    /\ filtered_data' = <<>>
    /\ analytics_data' = <<>>
    /\ UNCHANGED <<sales_data, today, accepted_count, accepted_revenue>>
    /\ IF sales_data = <<>>
       THEN /\ message' = "info"
            /\ metrics' = <<>>
       ELSE /\ metrics' = calculate_business_metrics(sales_data, today)
            /\ message' = IF DOMAIN metrics' = {} THEN "warning" ELSE "shown"

Periods == {"daily", "weekly", "monthly"}

\* main(), page "Analytics".
AnalyticsPage ==
    /\ pc = "idle"
    /\ pc' = "rendered"
    /\ page' = "Analytics"
    /\ metrics' = <<>>
    /\ UNCHANGED <<sales_data, today, accepted_count, accepted_revenue>>
    /\ IF sales_data = <<>>
       THEN /\ message' = "info"
            /\ args' = <<>>
            /\ filtered_data' = <<>>
            /\ analytics_data' = <<>>
       ELSE \E period \in Periods, start_date \in StartDates, end_date \in EndDates :
              /\ args' = [start_date |-> start_date, end_date |-> end_date,
                          seller |-> {}, period |-> period]
              /\ filtered_data' = get_filtered_data(sales_data, start_date, end_date, {})
              /\ IF filtered_data' = <<>>
                 THEN /\ message' = "warning"
                      /\ analytics_data' = <<>>
                 ELSE /\ analytics_data' = calculate_analytics(filtered_data', period)
                      /\ message' = IF analytics_data' = <<>> THEN "warning" ELSE "shown"

\* The script run ends: its local variables are gone, st.session_state stays.
EndRun ==
    /\ pc = "rendered"
    /\ pc' = "idle"
    /\ page' = "none"
    /\ args' = <<>>
    /\ filtered_data' = <<>>
    /\ analytics_data' = <<>>
    /\ metrics' = <<>>
    /\ message' = "none"
    /\ UNCHANGED <<sales_data, today, accepted_count, accepted_revenue>>

\* The clock passes midnight between two script runs.
Tick ==
    /\ pc = "idle"
    /\ today = Todays[1]
    /\ today' = Todays[2]
    /\ UNCHANGED <<sales_data, pc, page, args, filtered_data, analytics_data, metrics, message,
                   accepted_count, accepted_revenue>>

Next ==
    \/ AddTransactionPage
    \/ ViewTransactionsPage
    \/ ExportDataPage
    \/ DashboardPage
    \/ AnalyticsPage
    \/ EndRun
    \/ Tick

Spec == Init /\ [][Next]_vars

----------------------------------------------------------------------------
(* Properties.                                                             *)

FilterPages == {"View Transactions", "Export Data", "Analytics"}

\* A page that ran its query (it did not stop at the "no data yet" notice).
Queried == pc = "rendered" /\ page \in FilterPages /\ message # "info"

DashboardShown == pc = "rendered" /\ page = "Dashboard" /\ message = "shown"

\* C1: the store is append-only. A step either leaves sales_data as it is or is
\* an accepted submission that adds exactly one row at the end, every earlier
\* row unchanged and in place; the pages that filter, aggregate, compute the
\* metrics or export never change it.
C1_AppendOnly ==
    [][\/ sales_data' = sales_data
       \/ /\ page' = "Add Transaction"
          /\ message' = "success"
          /\ Len(sales_data') = Len(sales_data) + 1
          /\ SubSeq(sales_data', 1, Len(sales_data)) = sales_data]_vars

\* C1 witness: two rows were appended and an export ran over them.
C1_Witness ==
    /\ Len(sales_data) = 2
    /\ sales_data[1] # sales_data[2]
    /\ page = "Export Data"
    /\ Len(filtered_data) = 1

RECURSIVE SumOver(_, _)
SumOver(S, f) ==
    IF S = {} THEN 0
    ELSE LET x == CHOOSE y \in S : TRUE IN f[x] + SumOver(S \ {x}, f)

\* C2: every stored row has total_amount = price * quantity, and over every set
\* of stored rows the sum of total_amount equals the sum of price * quantity
\* (the sums are taken between two script runs, where every store is found).
C2_TotalIsPriceTimesQuantity ==
    /\ \A i \in 1..Len(sales_data) :
          sales_data[i].total_amount = sales_data[i].price * sales_data[i].quantity
    /\ pc = "idle" =>
        \A S \in SUBSET (1..Len(sales_data)) :
          SumOver(S, [i \in 1..Len(sales_data) |-> sales_data[i].total_amount])
            = SumOver(S, [i \in 1..Len(sales_data) |->
                            sales_data[i].price * sales_data[i].quantity])

\* C2 witness: a store whose rows have different quantities.
C2_Witness ==
    /\ Len(sales_data) = 2
    /\ sales_data[1].quantity = 2
    /\ sales_data[2].quantity = 1

\* The claim's filter condition on a stored row.
Passes(r, start_date, end_date, seller) ==
    /\ start_date = {} \/ \A s \in start_date : r.date >= s
    /\ end_date = {} \/ \A e \in end_date : r.date <= e
    /\ seller = {} \/ seller = {"All"} \/ \A s \in seller : r.seller = s

\* A stored row as the filter returns it: the same row, its date a Timestamp.
Returned(r) == [r EXCEPT !.date = r.date * SecondsPerDay]

\* The rows of the store that pass, in store order.
RECURSIVE PassingRows(_, _, _, _)
PassingRows(data, start_date, end_date, seller) ==
    IF data = <<>> THEN <<>>
    ELSE (IF Passes(Head(data), start_date, end_date, seller)
          THEN <<Returned(Head(data))>> ELSE <<>>)
         \o PassingRows(Tail(data), start_date, end_date, seller)

\* C3: get_filtered_data returns exactly the stored rows, in store order, whose
\* date is within the inclusive bounds that are set and whose seller matches
\* (no seller constraint when unset or "All"); with nothing set it returns the
\* whole store in its order.
C3_FilterResult ==
    Queried =>
      /\ filtered_data = PassingRows(sales_data, args.start_date, args.end_date, args.seller)
      /\ (args.start_date = {} /\ args.end_date = {} /\ args.seller \in {{}, {"All"}}) =>
            /\ Len(filtered_data) = Len(sales_data)
            /\ \A i \in 1..Len(sales_data) : filtered_data[i] = Returned(sales_data[i])

\* C3 witness: both bounds set to the date of a stored row and a seller picked;
\* that row is returned and the other stored row is not.
C3_Witness ==
    /\ Queried
    /\ page = "View Transactions"
    /\ args.start_date # {}
    /\ args.end_date = args.start_date
    /\ args.seller = {"A"}
    /\ Len(sales_data) = 2
    /\ Len(filtered_data) = 1
    /\ sales_data[1].seller = "A"
    /\ sales_data[2].seller = "A"

AnalyticsShown == pc = "rendered" /\ page = "Analytics" /\ message = "shown"

\* C4: the buckets partition the input. Re-summed over the buckets, the
\* total_amount, quantity and transaction_count equal the sum of total_amount,
\* the sum of quantity and the number of rows of the aggregated input.
C4_BucketsPartition ==
    AnalyticsShown =>
      /\ column_sum(analytics_data, "total_amount") = column_sum(filtered_data, "total_amount")
      /\ column_sum(analytics_data, "quantity") = column_sum(filtered_data, "quantity")
      /\ column_sum(analytics_data, "transaction_count") = Len(filtered_data)
      /\ \A j \in 1..Len(analytics_data) : analytics_data[j].transaction_count >= 1

\* C4 witness: a weekly rollup whose rows lie in two different weeks.
C4_Witness ==
    /\ AnalyticsShown
    /\ args.period = "weekly"
    /\ Len(filtered_data) = 2
    /\ Len(analytics_data) = 2
    /\ filtered_data[1].quantity # filtered_data[2].quantity

\* Summed column of the stored rows whose field `by` is k.
GroupTotal(by, k, column) ==
    SumOver({i \in 1..Len(sales_data) : sales_data[i][by] = k},
            [i \in 1..Len(sales_data) |-> sales_data[i][column]])

\* k is the winner among the groups of `by`: its sum is the maximum, and every
\* other group with that sum sorts after it.
IsTop(by, k, column) ==
    /\ \E i \in 1..Len(sales_data) : sales_data[i][by] = k
    /\ \A i \in 1..Len(sales_data) :
          LET o == sales_data[i][by]
          IN  /\ GroupTotal(by, o, column) <= GroupTotal(by, k, column)
              /\ GroupTotal(by, o, column) = GroupTotal(by, k, column)
                   => StrRank(k) <= StrRank(o)

\* The store with its rows in the order p.
Reordered(p) == [i \in 1..Len(sales_data) |-> sales_data[p[i]]]

\* C5: top_seller is the seller with the largest summed total_amount and
\* top_product the product with the largest summed quantity, reported with that
\* maximum; on a tie the key that sorts first wins, so the winners are the same
\* for every order in which the rows could have been appended.
C5_TopSellerAndProduct ==
    DashboardShown =>
      /\ IsTop("seller", metrics.top_seller, "total_amount")
      /\ metrics.top_seller_revenue = GroupTotal("seller", metrics.top_seller, "total_amount")
      /\ IsTop("product_name", metrics.top_product, "quantity")
      /\ metrics.top_product_qty = GroupTotal("product_name", metrics.top_product, "quantity")
      /\ \A p \in Permutations(1..Len(sales_data)) :
            LET m == calculate_business_metrics(Reordered(p), today)
            IN  /\ m.top_seller = metrics.top_seller
                /\ m.top_seller_revenue = metrics.top_seller_revenue
                /\ m.top_product = metrics.top_product
                /\ m.top_product_qty = metrics.top_product_qty

\* C5 witness: two sellers tie on revenue, the one that sorts first was
\* appended last, and it is reported.
C5_Witness ==
    /\ DashboardShown
    /\ Len(sales_data) = 2
    /\ sales_data[1].seller = "B"
    /\ sales_data[2].seller = "A"
    /\ sales_data[1].total_amount = sales_data[2].total_amount
    /\ metrics.top_seller = "A"

\* Summed total_amount of the stored rows dated from lo to hi, both included.
RevenueBetween(lo, hi) ==
    SumOver({i \in 1..Len(sales_data) : sales_data[i].date >= lo /\ sales_data[i].date <= hi},
            [i \in 1..Len(sales_data) |-> sales_data[i].total_amount])

\* Revenue of the trailing window ending today. Its first day is taken as the
\* code takes it (today - 7), so that only rows dated after today are at issue.
TrailingRevenue == RevenueBetween(today - 7, today)

\* Revenue of the 7 days before the trailing window.
PriorRevenue == RevenueBetween(today - 14, today - 8)

\* C6: daily_avg is the revenue of the rows dated within the trailing window
\* ending today, divided by 7; rows dated outside the window, rows dated after
\* today included, do not contribute.
C6_DailyAvgTrailingWindow ==
    DashboardShown => metrics.daily_avg[1] * 7 = TrailingRevenue * metrics.daily_avg[2]

\* C7: growth_rate is (this_week - last_week) / last_week * 100 with this_week
\* the revenue of the trailing window ending today and last_week that of the 7
\* days before it, and it is 0 whenever last_week is 0.
C7_GrowthRate ==
    DashboardShown =>
      IF PriorRevenue = 0
      THEN metrics.growth_rate[1] = 0 /\ metrics.growth_rate[2] # 0
      ELSE /\ metrics.growth_rate[2] # 0
           /\ metrics.growth_rate[1] * PriorRevenue
                = (TrailingRevenue - PriorRevenue) * 100 * metrics.growth_rate[2]

\* Stored rows whose month-of-year is the month-of-year of today.
SameMonthRows == {i \in 1..Len(sales_data) : Civil(sales_data[i].date)[2] = Civil(today)[2]}

\* C8: monthly_revenue and monthly_transactions are the summed total_amount and
\* the number of exactly the rows whose month-of-year is the current month
\* number, whatever their year.
C8_MonthOfYearOnly ==
    DashboardShown =>
      /\ metrics.monthly_transactions = Cardinality(SameMonthRows)
      /\ metrics.monthly_revenue
           = SumOver(SameMonthRows, [i \in 1..Len(sales_data) |-> sales_data[i].total_amount])

\* C8 witness: of two stored rows, the one of the current month number but of
\* another year is counted, the one of another month is not.
C8_Witness ==
    /\ DashboardShown
    /\ Len(sales_data) = 2
    /\ metrics.monthly_transactions = 1
    /\ \E i \in 1..2 :
          /\ Civil(sales_data[i].date)[2] = Civil(today)[2]
          /\ Civil(sales_data[i].date)[1] # Civil(today)[1]

\* C9: a submission with an empty product_name, an empty seller, a price that
\* is not > 0 or a quantity that is not > 0 leaves the store exactly as it was
\* and reports an error; a submission with all four fields valid appends
\* exactly one row, the one submitted.
C9_ValidationBeforeStore ==
    [][(pc = "idle" /\ page' = "Add Transaction") =>
         IF /\ args'.product_name # ""
            /\ args'.seller # ""
            /\ args'.price > 0
            /\ args'.quantity > 0
         THEN /\ message' = "success"
              /\ Len(sales_data') = Len(sales_data) + 1
              /\ SubSeq(sales_data', 1, Len(sales_data)) = sales_data
              /\ LET r == sales_data'[Len(sales_data')]
                 IN  /\ r.product_name = args'.product_name
                     /\ r.seller = args'.seller
                     /\ r.price = args'.price
                     /\ r.quantity = args'.quantity
         ELSE /\ message' = "error"
              /\ sales_data' = sales_data]_vars

\* C9 witness: a submission with price 0 and the other fields filled in was
\* rejected while the store held a row.
C9_Witness ==
    /\ pc = "rendered"
    /\ page = "Add Transaction"
    /\ message = "error"
    /\ args.price = 0
    /\ args.product_name # ""
    /\ args.seller # ""
    /\ args.quantity > 0
    /\ Len(sales_data) = 1

SellerArgs == {{}, {"All"}, {"A"}, {"B"}}

\* C10 (the functions are applied to the store between two script runs, where
\* every store the model builds is found): on an empty record set the core functions return their empty results:
\* get_filtered_data an empty frame, calculate_business_metrics {} and
\* calculate_analytics an empty frame for each period; the same holds for a
\* record set that is empty only after filtering a non-empty store.
C10_EmptyResults ==
    /\ pc = "idle" =>
        \A sd \in StartDates, ed \in EndDates, sel \in SellerArgs :
          LET f == get_filtered_data(sales_data, sd, ed, sel)
          IN  /\ sales_data = <<>> => f = <<>>
              /\ f = <<>> =>
                   /\ calculate_business_metrics(f, today) = <<>>
                   /\ \A p \in Periods : calculate_analytics(f, p) = <<>>
    /\ (Queried /\ filtered_data = <<>>) => analytics_data = <<>> /\ message = "warning"

\* C10 witness: a filter over a non-empty store returned no row.
C10_Witness ==
    /\ Queried
    /\ page = "Analytics"
    /\ Len(sales_data) = 2
    /\ filtered_data = <<>>

\* ISO-8601 <<year, week>> of a day number: the week runs Monday to Sunday and
\* belongs to the year of its Thursday.
ISOWeek(d) ==
    LET thursday == d - ((d + 3) % 7) + 3
        y == Civil(thursday)[1]
    IN  <<y, (thursday - DateOf(y, 1, 1)) \div 7 + 1>>

\* The bucket key of a calendar date: the date, its ISO week or its year-month.
BucketKey(d, period) ==
    CASE period = "daily" -> <<d>>
      [] period = "weekly" -> ISOWeek(d)
      [] period = "monthly" -> <<Civil(d)[1], Civil(d)[2]>>

\* The bucket key a result row stands for, read from its key column: the date,
\* the week of the Monday its text starts with, the year and month of its text.
KeyOfBucket(b, period) ==
    CASE period = "daily" -> b.key
      [] period = "weekly" -> ISOWeek(DateOf(b.key[1], b.key[2], b.key[3]))
      [] period = "monthly" -> b.key

\* The first day a result row covers.
FirstDay(b, period) ==
    CASE period = "daily" -> b.key[1]
      [] period = "weekly" -> DateOf(b.key[1], b.key[2], b.key[3])
      [] period = "monthly" -> DateOf(b.key[1], b.key[2], 1)

\* C11: calculate_analytics returns one bucket per distinct bucket key of its
\* input (calendar date, ISO week, year-month), and the buckets are in strictly
\* ascending chronological order, whatever the order of the input rows and
\* also across a year boundary.
C11_BucketsPerKeyAscending ==
    AnalyticsShown =>
      LET period == args.period
          keys == {BucketKey(filtered_data[i].date \div SecondsPerDay, period) :
                     i \in 1..Len(filtered_data)}
      IN  /\ Len(analytics_data) = Cardinality(keys)
          /\ {KeyOfBucket(analytics_data[j], period) : j \in 1..Len(analytics_data)} = keys
          /\ \A j \in 1..(Len(analytics_data) - 1) :
                FirstDay(analytics_data[j], period) < FirstDay(analytics_data[j + 1], period)
          /\ period = "weekly" =>
                \A j \in 1..Len(analytics_data) :
                   LET k == analytics_data[j].key
                   IN  /\ (DateOf(k[1], k[2], k[3]) + 3) % 7 = 0
                       /\ DateOf(k[4], k[5], k[6]) = DateOf(k[1], k[2], k[3]) + 6

\* C11 witness: a weekly rollup of two rows appended in reverse date order,
\* whose weeks lie on the two sides of a year boundary.
C11_Witness ==
    /\ AnalyticsShown
    /\ args.period = "weekly"
    /\ Len(filtered_data) = 2
    /\ filtered_data[1].date > filtered_data[2].date
    /\ Len(analytics_data) = 2
    /\ ISOWeek(filtered_data[1].date \div SecondsPerDay)[1]
         # ISOWeek(filtered_data[2].date \div SecondsPerDay)[1]

\* C12: the filter is idempotent. Applied with the same start_date, end_date and
\* seller to the frame it returned, it returns that frame again.
C12_FilterIdempotent ==
    Queried =>
      get_filtered_data_again(filtered_data, args.start_date, args.end_date, args.seller)
        = filtered_data

\* C12 witness: a filter with both dates and a seller set kept one of two
\* stored rows; filtering that row again keeps it.
C12_Witness ==
    /\ Queried
    /\ page = "Export Data"
    /\ args.start_date # {}
    /\ args.end_date # {}
    /\ args.seller = {"B"}
    /\ Len(sales_data) = 2
    /\ Len(filtered_data) = 1
    /\ Len(get_filtered_data_again(filtered_data, args.start_date, args.end_date, args.seller)) = 1

\* C13: over any sequence of accepted and rejected submissions and page views,
\* the Dashboard metrics are those of the whole store: total_transactions is
\* the number of submissions accepted so far and total_revenue the sum of
\* price * quantity over them; neither of the two ever decreases, and the
\* revenue grows with every accepted submission.
C13_DashboardOverWholeStore ==
    [][/\ DashboardShown' =>
            /\ metrics'.total_transactions = accepted_count'
            /\ metrics'.total_revenue = accepted_revenue'
       /\ accepted_count' >= accepted_count
       /\ accepted_revenue' >= accepted_revenue
       /\ accepted_count' > accepted_count => accepted_revenue' > accepted_revenue
       /\ (page' = "Add Transaction" /\ message' = "error") =>
            /\ accepted_count' = accepted_count
            /\ accepted_revenue' = accepted_revenue]_vars

\* C13 witness: the Dashboard is shown after two accepted submissions of
\* different amounts, on the day after the first evaluation instant.
C13_Witness ==
    /\ DashboardShown
    /\ today = Todays[2]
    /\ accepted_count = 2
    /\ sales_data[1].total_amount # sales_data[2].total_amount
    /\ metrics.total_transactions = 2
    /\ metrics.total_revenue = sales_data[1].total_amount + sales_data[2].total_amount

====
